---- MODULE Spec2Model ----
\* Model of gulpfile.ts (lpp-vita-project): the VitaProject class, the module
\* level `defaults` object and the gulp tasks default/build/test:cmd/deploy/watch.
\*
\* Strings are sequences of one-character strings, so that `id.length` is Len
\* and a template string such as `${srcDir}/eboot.bin` is a concatenation.
\* JavaScript values are tagged records: Undefined, Null, Str(s), Obj(o).
\* A JavaScript object is a function whose DOMAIN is its set of own keys.
EXTENDS Integers, Sequences, FiniteSets, TLC

\* ------------------------------------------------------------------ bounds
\* number of gulp tasks one process runs (e.g. `gulp build deploy`)
MaxTasks == 2
\* number of transferFiles runs the watch task performs
MaxRuns == 2
\* failed connection attempts of the command client that are told apart
MaxAttempts == 1

\* ------------------------------------------------------- JavaScript values
Undefined == [k |-> "undefined"]
Null == [k |-> "null"]
Str(s) == [k |-> "string", v |-> s]
Obj(o) == [k |-> "object", v |-> o]
Num(n) == [k |-> "number", v |-> n]
\* marks a key that the descriptor file does not contain
Absent == [k |-> "absent"]
EmptyObject == [x \in {} |-> Undefined]

\* o[key] of JavaScript: undefined when o has no such own key
Get(o, key) == IF key \in DOMAIN o THEN o[key] ELSE Undefined
\* `x == null` of JavaScript: true of null and of undefined
IsNullish(x) == x = Null \/ x = Undefined
\* `a ?? b`
Coalesce(a, b) == IF IsNullish(a) THEN b ELSE a
\* `o?.key`
OptGet(o, key) == IF IsNullish(o) THEN Undefined ELSE Get(o.v, key)
\* `x.length` of a string value
Length(x) == IF x.k = "string" THEN Len(x.v) ELSE -1

\* ----------------------------------------------------------------- strings
sHELLOWRLD == <<"H", "E", "L", "L", "O", "W", "R", "L", "D">>
sHelloWorld == <<"H", "e", "l", "l", "o", " ", "W", "o", "r", "l", "d">>
sTESTGAME1 == <<"T", "E", "S", "T", "G", "A", "M", "E", "1">>
sSHORT == <<"S", "H", "O", "R", "T">>
sTestGame == <<"T", "e", "s", "t", " ", "G", "a", "m", "e">>
sEmpty == <<>>
sSrc == <<"s", "r", "c">>
sGame == <<"g", "a", "m", "e">>
sDist == <<"d", "i", "s", "t">>
sOut == <<"o", "u", "t">>
sVita == <<"v", "i", "t", "a">>
sSlash == <<"/">>
sNewline == <<"\n">>
sDestroy == <<"d", "e", "s", "t", "r", "o", "y">>
sLaunch == <<"l", "a", "u", "n", "c", "h", " ">>
sVpk == <<".", "v", "p", "k">>
sPng == <<"a", ".", "p", "n", "g">>
sSfo == <<"s", "c", "e", "_", "s", "y", "s", "/", "p", "a", "r", "a", "m", ".", "s", "f", "o">>

\* ---------------------------------------------------------------- defaults
ebootFileName == <<"e", "b", "o", "o", "t", ".", "b", "i", "n">>
indexFileName == <<"i", "n", "d", "e", "x", ".", "l", "u", "a">>
FtpPort == 1337
CmdPort == 1338
\* defaults.config as written in the source: it has no `ip` key
defaultsConfigLiteral ==
  [id |-> Str(sHELLOWRLD),
   title |-> Str(sHelloWorld),
   ports |-> Obj([ftp |-> Num(FtpPort), cmd |-> Num(CmdPort)]),
   srcDir |-> Str(sSrc),
   outDir |-> Str(sDist)]

Keys == {"id", "title", "ip", "ports", "srcDir", "outDir"}

\* ------------------------------------------------------------------ errors
projectConfigFileIsMissing == "projectConfigFileIsMissing"
idDoesNotConformRequirements == "idDoesNotConformRequirements"
titleIsNotAvailable == "titleIsNotAvailable"
srcDirDoesntExists == "srcDirDoesntExists"
ebootFileIsMissing == "ebootFileIsMissing"
indexFileIsMissing == "indexFileIsMissing"
ipIsNotDefined == "ipIsNotDefined"
NoError == "none"

\* ------------------------------------------------- descriptor files (input)
Field(key, val) == IF val = Absent THEN EmptyObject ELSE key :> val
\* the object JSON.parse returns for a descriptor file with these fields
MkFile(i, t, a, p, s, o) ==
  Field("id", i) @@ Field("title", t) @@ Field("ip", a) @@
  Field("ports", p) @@ Field("srcDir", s) @@ Field("outDir", o)
DescriptorFiles ==
  {MkFile(Absent, Absent, Absent, Absent, Absent, Absent),
   MkFile(Str(sTESTGAME1), Str(sTestGame), Absent, Absent, Absent, Absent),
   MkFile(Str(sTESTGAME1), Str(sTestGame), Str(sVita), Absent, Absent, Absent),
   MkFile(Str(sSHORT), Str(sTestGame), Absent, Absent, Absent, Absent),
   MkFile(Null, Null, Absent, Absent, Absent, Absent),
   MkFile(Str(sSHORT), Null, Str(sVita), Absent, Absent, Absent),
   MkFile(Str(sTESTGAME1), Null, Absent, Absent, Absent, Absent),
   MkFile(Str(sTESTGAME1), Str(sEmpty), Absent, Absent, Absent, Absent),
   MkFile(Absent, Absent, Str(sVita), Obj([ftp |-> Num(21)]), Absent, Absent),
   MkFile(Absent, Absent, Str(sVita), Null, Absent, Absent),
   MkFile(Absent, Absent, Str(sVita), Obj([cmd |-> Num(23)]), Str(sGame), Absent),
   MkFile(Absent, Absent, Str(sVita), Obj([ftp |-> Num(21), cmd |-> Num(23)]),
          Absent, Str(sOut))}
\* what is at the descriptor path: no file, or a file with this JSON content
NoFile == [exists |-> FALSE, json |-> EmptyObject]
Paths == {NoFile} \cup {[exists |-> TRUE, json |-> f] : f \in DescriptorFiles}

\* -------------------------------------------------------- the source tree
FileNames == {ebootFileName, indexFileName, sPng}
Tree(dir, names) == {dir \o sSlash} \cup {dir \o sSlash \o n : n \in names}
Disks ==
  {{},
   Tree(sSrc, {}),
   Tree(sSrc, {ebootFileName}),
   Tree(sSrc, {indexFileName}),
   Tree(sSrc, {ebootFileName, indexFileName}),
   Tree(sSrc, {ebootFileName, indexFileName, sPng}),
   Tree(sGame, {ebootFileName, indexFileName}),
   Tree(sSrc, {ebootFileName, indexFileName}) \cup
     Tree(sGame, {ebootFileName, indexFileName, sPng})}
\* fs.existsSync
existsSync(d, path) == path \in d

\* the file entries of the glob `${srcDir}/**/*`, by relative path
srcFiles(d, srcDir) ==
  {[path |-> n, data |-> "original"] :
     n \in {m \in FileNames : (srcDir \o sSlash \o m) \in d}}

\* ------------------------------------------------------ VitaProject: setup
\* Object.assign(target, source): copies the own keys of source into target
ObjectAssign(target, source) ==
  [key \in (DOMAIN target) \cup (DOMAIN source) |->
     IF key \in DOMAIN source THEN source[key] ELSE target[key]]

\* readConfiguration: the merged object is `defaults.config` itself, which
\* Object.assign mutates and returns
readConfiguration(defs, path) ==
  IF ~path.exists
    THEN [error |-> projectConfigFileIsMissing, config |-> defs]
    ELSE [error |-> NoError, config |-> ObjectAssign(defs, path.json)]

\* validateConfiguration with the two checks in the other order
validateConfigurationTitleFirst(cfg) ==
  IF IsNullish(Get(cfg, "title"))
    THEN titleIsNotAvailable
    ELSE IF IsNullish(Get(cfg, "id")) \/ Length(Get(cfg, "id")) # 9
      THEN idDoesNotConformRequirements
      ELSE NoError

validateConfiguration(cfg) ==
  IF IsNullish(Get(cfg, "id")) \/ Length(Get(cfg, "id")) # 9
    THEN idDoesNotConformRequirements
    ELSE IF IsNullish(Get(cfg, "title"))
      THEN titleIsNotAvailable
      ELSE NoError

\* `${x}` for the values srcDir takes
Template(x) == IF x.k = "string" THEN x.v ELSE <<x.k>>

\* checkRequiredFiles without the check of eboot.bin
checkRequiredFilesNoEboot(cfg, d) ==
  LET dir == Template(Get(cfg, "srcDir"))
      p1 == dir \o sSlash
      p3 == dir \o sSlash \o indexFileName
  IN IF ~existsSync(d, p1)
       THEN [error |-> srcDirDoesntExists, probes |-> <<p1>>]
       ELSE IF ~existsSync(d, p3)
         THEN [error |-> indexFileIsMissing, probes |-> <<p1, p3>>]
         ELSE [error |-> NoError, probes |-> <<p1, p3>>]

\* checkRequiredFiles looking for index.lua before eboot.bin
checkRequiredFilesIndexFirst(cfg, d) ==
  LET dir == Template(Get(cfg, "srcDir"))
      p1 == dir \o sSlash
      p2 == dir \o sSlash \o ebootFileName
      p3 == dir \o sSlash \o indexFileName
  IN IF ~existsSync(d, p1)
       THEN [error |-> srcDirDoesntExists, probes |-> <<p1>>]
       ELSE IF ~existsSync(d, p3)
         THEN [error |-> indexFileIsMissing, probes |-> <<p1, p3>>]
         ELSE IF ~existsSync(d, p2)
           THEN [error |-> ebootFileIsMissing, probes |-> <<p1, p3, p2>>]
           ELSE [error |-> NoError, probes |-> <<p1, p3, p2>>]

\* checkRequiredFiles: the error thrown and the paths given to fs.existsSync
checkRequiredFiles(cfg, d) ==
  LET dir == Template(Get(cfg, "srcDir"))
      p1 == dir \o sSlash
      p2 == dir \o sSlash \o ebootFileName
      p3 == dir \o sSlash \o indexFileName
  IN IF ~existsSync(d, p1)
       THEN [error |-> srcDirDoesntExists, probes |-> <<p1>>]
       ELSE IF ~existsSync(d, p2)
         THEN [error |-> ebootFileIsMissing, probes |-> <<p1, p2>>]
         ELSE IF ~existsSync(d, p3)
           THEN [error |-> indexFileIsMissing, probes |-> <<p1, p2, p3>>]
           ELSE [error |-> NoError, probes |-> <<p1, p2, p3>>]

\* the constructor: read, then validate, then check; the first throw ends it
constructor(defs, path, d) ==
  LET r == readConfiguration(defs, path)
      v == validateConfiguration(r.config)
      c == checkRequiredFiles(r.config, d)
  IN IF r.error # NoError
       THEN [error |-> r.error, config |-> r.config,
             log |-> <<"readConfiguration">>, probes |-> <<>>]
       ELSE IF v # NoError
         THEN [error |-> v, config |-> r.config,
               log |-> <<"readConfiguration", "validateConfiguration">>,
               probes |-> <<>>]
         ELSE [error |-> c.error, config |-> r.config,
               log |-> <<"readConfiguration", "validateConfiguration",
                         "checkRequiredFiles">>,
               probes |-> c.probes]

\* ------------------------------------------------------------------- state
VARIABLES
  defaultsConfig,  \* the module-level object defaults.config
  disk,            \* the paths that exist in the source trees
  tempDir,         \* the files in the directory .temp
  nTasks,          \* tasks this process has started
  task,            \* the gulp task that runs
  taskPc,          \* position of the task function
  taskSignal,      \* what gulp was told: pending, completed or the error
  ctor,            \* the last constructor call: error, log, probes
  parsed,          \* the object JSON.parse returned to that call
  filePorts,       \* what that object had under `ports`
  sfo,             \* param.sfo was generated by this task
  buildStream,     \* the build pipeline: none, flowing, zipped, written
  archive,         \* the archive of this build
  runs,            \* deployPipeAsync runs of this task
  step,            \* position of deployPipeAsync
  trace,           \* the steps this run has begun, in order
  runError,        \* the rejection of this run
  unhandled,       \* a rejection nobody awaits
  stagingStream,   \* the gulp.dest(.temp) stream: none, flowing, end, error
  staged,          \* the files that stream writes
  piped,           \* the entries given to processPipe for them
  tempBefore,      \* the files in .temp when this run began
  uploaded,        \* the files this run uploaded
  ncState,         \* the netcat client: none, connecting, open, closing, error
  ncAddr,          \* its host and port
  attempts,        \* the attempts that failed while it is connecting, up to MaxAttempts
  ncOpened,        \* the connections it has opened
  cmdPromise,      \* the promise of sendCmdAsync: none, pending, resolved, rejected
  cmdError,        \* its rejection
  cmdText,         \* its command
  sent,            \* what the command socket carried in this run or task
  ftpOpen,         \* the FTP session of this run is open
  ftpOp,           \* the FTP call awaited: none, access, cd1, cd2, cd3, upload
  ftpHost,         \* host and port of the FTP session
  leaked           \* connections of earlier runs that were never closed

taskVars == <<nTasks, task, taskPc, taskSignal, ctor, filePorts, parsed>>
buildVars == <<sfo, buildStream, archive>>
runVars == <<runs, step, trace, runError, unhandled, stagingStream, staged, piped, tempBefore, uploaded>>
ncVars == <<ncState, ncAddr, attempts, ncOpened, cmdPromise, cmdError, cmdText, sent>>
ftpVars == <<ftpOpen, ftpOp, ftpHost>>
vars ==
  <<defaultsConfig, disk, tempDir, leaked, taskVars, buildVars, runVars,
    ncVars, ftpVars>>

\* this.configuration is the object readConfiguration returned
configuration == defaultsConfig

Tasks == {"default", "build", "test:cmd", "deploy", "watch"}
NoArchive == [name |-> <<>>, dir |-> <<>>, entries |-> {}, written |-> FALSE]
NoHost == [host |-> <<>>, port |-> 0]
NoCtor == [error |-> NoError, log |-> <<>>, probes |-> <<>>]

Init ==
  /\ defaultsConfig = defaultsConfigLiteral
  /\ disk \in Disks
  /\ tempDir = {}
  /\ leaked = FALSE
  /\ nTasks = 0
  /\ task = "none"
  /\ taskPc = "idle"
  /\ taskSignal = "none"
  /\ ctor = NoCtor
  /\ parsed = NoFile
  /\ filePorts = Absent
  /\ sfo = FALSE
  /\ buildStream = "none"
  /\ archive = NoArchive
  /\ runs = 0
  /\ step = "Idle"
  /\ trace = <<>>
  /\ runError = NoError
  /\ unhandled = FALSE
  /\ stagingStream = "none"
  /\ staged = {}
  /\ piped = {}
  /\ tempBefore = {}
  /\ uploaded = {}
  /\ ncState = "none"
  /\ ncAddr = NoHost
  /\ attempts = 0
  /\ ncOpened = 0
  /\ cmdPromise = "none"
  /\ cmdError = NoError
  /\ cmdText = <<>>
  /\ sent = <<>>
  /\ ftpOpen = FALSE
  /\ ftpOp = "none"
  /\ ftpHost = NoHost

\* nothing of the previous task is still running: the model follows one build
\* or one run at a time, a task starts when the work of the one before is over
Quiescent ==
  /\ taskPc \in {"idle", "returned"}
  /\ buildStream \in {"none", "written"}
  /\ step \in {"Idle", "Done", "Aborted"}
  /\ cmdPromise # "pending"

\* a gulp task starts: `let project = new VitaProject()`
NewVitaProject(t, path) ==
  LET c == constructor(defaultsConfig, path, disk)
  IN /\ Quiescent
     /\ nTasks < MaxTasks
     /\ nTasks' = nTasks + 1
     /\ task' = t
     /\ taskPc' = "constructed"
     /\ taskSignal' = "pending"
     /\ defaultsConfig' = c.config
     /\ ctor' = [error |-> c.error, log |-> c.log, probes |-> c.probes]
     /\ parsed' = path
     /\ filePorts' = IF "ports" \in DOMAIN path.json THEN path.json.ports ELSE Absent
     /\ sfo' = FALSE
     /\ buildStream' = "none"
     /\ archive' = NoArchive
     /\ runs' = 0
     /\ step' = "Idle"
     /\ trace' = <<>>
     /\ runError' = NoError
     /\ stagingStream' = "none"
     /\ staged' = {}
     /\ piped' = {}
     /\ tempBefore' = {}
     /\ uploaded' = {}
     /\ ncState' = "none"
     /\ ncAddr' = NoHost
     /\ attempts' = 0
     /\ ncOpened' = 0
     /\ cmdPromise' = "none"
     /\ cmdError' = NoError
     /\ cmdText' = <<>>
     /\ sent' = <<>>
     /\ ftpOpen' = FALSE
     /\ ftpOp' = "none"
     /\ ftpHost' = NoHost
     /\ leaked' = (leaked \/ ftpOpen \/ ncState # "none")
     /\ UNCHANGED <<disk, tempDir, unhandled>>

\* the constructor threw: the task function ends with that error
ConstructorThrows ==
  /\ taskPc = "constructed"
  /\ ctor.error # NoError
  /\ taskPc' = "returned"
  /\ taskSignal' = ctor.error
  /\ parsed' = NoFile
  /\ UNCHANGED <<nTasks, task, ctor, filePorts>>
  /\ UNCHANGED <<defaultsConfig, disk, tempDir, leaked, buildVars, runVars,
                 ncVars, ftpVars>>

\* the constructor returned: the task function goes on
Constructed == taskPc = "constructed" /\ ctor.error = NoError

\* ------------------------------------------------------------------- build
\* `${title}.vpk`
archiveName(cfg) == Template(Get(cfg, "title")) \o sVpk
\* the text after the last dot of a path
Extension(path) ==
  LET dots == {i \in 1..Len(path) : path[i] = "."}
  IN IF dots = {} THEN <<>>
     ELSE SubSeq(path, (CHOOSE i \in dots : \A j \in dots : j <= i) + 1, Len(path))
ImageExtensions == {<<"b", "m", "p">>, <<"p", "n", "g">>, <<"j", "p", "g">>}
\* the glob of the filter: **/*.{bmp,png,jpg}
filter(entry) == Extension(entry.path) \in ImageExtensions
\* processPipe without `.pipe(f.restore)`: only the filtered entries come out
processPipeNoRestore(files) ==
  {[e EXCEPT !.data = "recompressed"] : e \in {x \in files : filter(x)}}

\* processPipe: the filtered entries go through pngquant, the rest is restored
processPipe(files) ==
  {IF filter(e) THEN [e EXCEPT !.data = "recompressed"] ELSE e : e \in files}
\* processedSrcFiles
processedSrcFiles(cfg, d) ==
  processPipe(srcFiles(d, Template(Get(cfg, "srcDir"))))
\* bundledFiles without the metadata entry
bundledFilesNoSfo(cfg, d) == processedSrcFiles(cfg, d)

\* bundledFiles: merge(generatedSfoFile(), processedSrcFiles())
bundledFiles(cfg, d) ==
  {[path |-> sSfo, data |-> "sfo"]} \cup processedSrcFiles(cfg, d)

\* tasks default and build: `project.build()` is called and not awaited, the
\* async task function returns; execSync of vita-mksfoex may throw
build(toolOk) ==
  /\ Constructed
  /\ task \in {"default", "build"}
  /\ parsed' = NoFile
  /\ taskPc' = "returned"
  /\ IF toolOk
       THEN /\ sfo' = TRUE
            /\ buildStream' = "flowing"
            /\ taskSignal' = "completed"
       ELSE /\ sfo' = FALSE
            /\ buildStream' = "none"
            /\ taskSignal' = "MetadataToolFailed"
  /\ UNCHANGED <<nTasks, task, ctor, filePorts, archive>>
  /\ UNCHANGED <<defaultsConfig, disk, tempDir, leaked, runVars, ncVars, ftpVars>>

\* gulp-zip has collected the merged entries
BuildZips ==
  /\ buildStream = "flowing"
  /\ buildStream' = "zipped"
  /\ archive' = [name |-> archiveName(configuration),
                 dir |-> Template(Coalesce(Get(configuration, "outDir"),
                                           defaultsConfig.outDir)),
                 entries |-> bundledFiles(configuration, disk),
                 written |-> FALSE]
  /\ UNCHANGED sfo
  /\ UNCHANGED <<defaultsConfig, disk, tempDir, leaked, taskVars, runVars,
                 ncVars, ftpVars>>

\* gulp.dest has written the archive
BuildWrites ==
  /\ buildStream = "zipped"
  /\ buildStream' = "written"
  /\ archive' = [archive EXCEPT !.written = TRUE]
  /\ UNCHANGED sfo
  /\ UNCHANGED <<defaultsConfig, disk, tempDir, leaked, taskVars, runVars,
                 ncVars, ftpVars>>

\* ------------------------------------------------------ the command client
\* generateNetcatClient falling back to localhost, as ftp.access does
generateNetcatClientLocalhost(cfg) ==
  [error |-> NoError,
   addr |-> [host |-> Coalesce(Get(cfg, "ip"),
                        Str(<<"l", "o", "c", "a", "l", "h", "o", "s", "t">>)).v,
             port |-> Coalesce(OptGet(Get(cfg, "ports"), "cmd"), Num(CmdPort)).v]]

\* generateNetcatClient: throws when ip is not defined
generateNetcatClient(cfg) ==
  IF IsNullish(Get(cfg, "ip"))
    THEN [error |-> ipIsNotDefined, addr |-> NoHost]
    ELSE [error |-> NoError,
          addr |-> [host |-> Get(cfg, "ip").v,
                    port |-> Coalesce(OptGet(Get(cfg, "ports"), "cmd"),
                               Coalesce(OptGet(Get(defaultsConfig, "ports"), "cmd"),
                                        Num(CmdPort))).v]]

\* sendCmdAsync up to the return of the promise: when generateNetcatClient
\* throws, the promise is rejected and `nc.on` of undefined throws inside the
\* executor, which a settled promise ignores; otherwise connect() is called
sendCmdAsync(cmd) ==
  LET nc == generateNetcatClient(configuration)
  IN /\ cmdText' = cmd
     /\ attempts' = 0
     /\ ncOpened' = 0
     /\ IF nc.error # NoError
          THEN /\ cmdPromise' = "rejected"
               /\ cmdError' = nc.error
               /\ ncState' = "none"
               /\ ncAddr' = NoHost
          ELSE /\ cmdPromise' = "pending"
               /\ cmdError' = NoError
               /\ ncState' = "connecting"
               /\ ncAddr' = nc.addr

\* the socket connects
NcConnects ==
  /\ ncState = "connecting"
  /\ ncState' = "open"
  /\ ncOpened' = ncOpened + 1
  /\ attempts' = 0
  /\ UNCHANGED <<ncAddr, cmdPromise, cmdError, cmdText, sent>>
  /\ UNCHANGED <<defaultsConfig, disk, tempDir, leaked, taskVars, buildVars,
                 runVars, ftpVars>>

\* a retry that gives up after MaxAttempts attempts and fails the command
NcRetriesGivesUp ==
  /\ ncState = "connecting"
  /\ IF attempts < MaxAttempts
       THEN /\ attempts' = attempts + 1
            /\ UNCHANGED <<ncState, cmdPromise, cmdError>>
       ELSE /\ attempts' = 0
            /\ ncState' = "none"
            /\ cmdPromise' = IF cmdPromise = "pending" THEN "rejected" ELSE cmdPromise
            /\ cmdError' = IF cmdPromise = "pending" THEN "SocketError" ELSE cmdError
  /\ UNCHANGED <<ncAddr, ncOpened, cmdText, sent>>
  /\ UNCHANGED <<defaultsConfig, disk, tempDir, leaked, taskVars, buildVars,
                 runVars, ftpVars>>

\* retry(5000): an attempt found nobody listening, the client waits five
\* seconds and tries again; it keeps no count and has no deadline
NcRetries ==
  /\ ncState = "connecting"
  /\ attempts' = IF attempts < MaxAttempts THEN attempts + 1 ELSE attempts
  /\ UNCHANGED <<ncState, ncAddr, ncOpened, cmdPromise, cmdError, cmdText, sent>>
  /\ UNCHANGED <<defaultsConfig, disk, tempDir, leaked, taskVars, buildVars,
                 runVars, ftpVars>>

\* send with a callback that resolves at once and closes afterwards
NcSendsResolves ==
  /\ ncState = "open"
  /\ sent' = Append(sent, cmdText \o sNewline)
  /\ ncState' = "closing"
  /\ cmdPromise' = IF cmdPromise = "pending" THEN "resolved" ELSE cmdPromise
  /\ UNCHANGED <<ncAddr, attempts, ncOpened, cmdError, cmdText>>
  /\ UNCHANGED <<defaultsConfig, disk, tempDir, leaked, taskVars, buildVars,
                 runVars, ftpVars>>

\* send(cmd + "\n", callback): the data is written, the callback calls close
NcSends ==
  /\ ncState = "open"
  /\ sent' = Append(sent, cmdText \o sNewline)
  /\ ncState' = "closing"
  /\ UNCHANGED <<ncAddr, attempts, ncOpened, cmdPromise, cmdError, cmdText>>
  /\ UNCHANGED <<defaultsConfig, disk, tempDir, leaked, taskVars, buildVars,
                 runVars, ftpVars>>

\* close(callback): the socket is closed, the callback resolves the promise
NcCloses ==
  /\ ncState = "closing"
  /\ ncState' = "none"
  /\ cmdPromise' = IF cmdPromise = "pending" THEN "resolved" ELSE cmdPromise
  /\ UNCHANGED <<ncAddr, attempts, ncOpened, cmdError, cmdText, sent>>
  /\ UNCHANGED <<defaultsConfig, disk, tempDir, leaked, taskVars, buildVars,
                 runVars, ftpVars>>

\* the client emits "error": reject is its listener
NcErrors ==
  /\ ncState \in {"connecting", "open", "closing"}
  /\ ncState' = "error"
  /\ cmdPromise' = IF cmdPromise = "pending" THEN "rejected" ELSE cmdPromise
  /\ cmdError' = IF cmdPromise = "pending" THEN "SocketError" ELSE cmdError
  /\ attempts' = 0
  /\ UNCHANGED <<ncAddr, ncOpened, cmdText, sent>>
  /\ UNCHANGED <<defaultsConfig, disk, tempDir, leaked, taskVars, buildVars,
                 runVars, ftpVars>>

\* `launch ${id}`
launchCmd(cfg) == sLaunch \o Template(Get(cfg, "id"))

\* ------------------------------------------------------------ task test:cmd
TestCmdLaunch ==
  /\ Constructed
  /\ task = "test:cmd"
  /\ taskPc' = "await launch"
  /\ parsed' = NoFile
  /\ sendCmdAsync(launchCmd(configuration))
  /\ UNCHANGED <<nTasks, task, taskSignal, ctor, filePorts, sent>>
  /\ UNCHANGED <<defaultsConfig, disk, tempDir, leaked, buildVars, runVars, ftpVars>>

\* the launch was sent: sleepAsync(2000) begins
TestCmdSleeps ==
  /\ taskPc = "await launch"
  /\ cmdPromise = "resolved"
  /\ cmdPromise' = "none"
  /\ taskPc' = "await sleep"
  /\ UNCHANGED <<nTasks, task, taskSignal, ctor, filePorts, parsed>>
  /\ UNCHANGED <<ncState, ncAddr, attempts, ncOpened, cmdError, cmdText, sent>>
  /\ UNCHANGED <<defaultsConfig, disk, tempDir, leaked, buildVars, runVars, ftpVars>>

\* the timer fired
TestCmdDestroy ==
  /\ taskPc = "await sleep"
  /\ taskPc' = "await destroy"
  /\ sendCmdAsync(sDestroy)
  /\ UNCHANGED <<nTasks, task, taskSignal, ctor, filePorts, parsed, sent>>
  /\ UNCHANGED <<defaultsConfig, disk, tempDir, leaked, buildVars, runVars, ftpVars>>

TestCmdDone ==
  /\ taskPc = "await destroy"
  /\ cmdPromise = "resolved"
  /\ cmdPromise' = "none"
  /\ taskPc' = "returned"
  /\ taskSignal' = "completed"
  /\ UNCHANGED <<nTasks, task, ctor, filePorts, parsed>>
  /\ UNCHANGED <<ncState, ncAddr, attempts, ncOpened, cmdError, cmdText, sent>>
  /\ UNCHANGED <<defaultsConfig, disk, tempDir, leaked, buildVars, runVars, ftpVars>>

\* an awaited sendCmdAsync rejected: the task function ends with its error
TestCmdRejected ==
  /\ taskPc \in {"await launch", "await destroy"}
  /\ cmdPromise = "rejected"
  /\ cmdPromise' = "none"
  /\ taskPc' = "returned"
  /\ taskSignal' = cmdError
  /\ UNCHANGED <<nTasks, task, ctor, filePorts, parsed>>
  /\ UNCHANGED <<ncState, ncAddr, attempts, ncOpened, cmdError, cmdText, sent>>
  /\ UNCHANGED <<defaultsConfig, disk, tempDir, leaked, buildVars, runVars, ftpVars>>

\* ---------------------------------------------------------- deployPipeAsync
\* toPromise resolving at once instead of on "end"
toPromiseEager(stream) == IF stream = "error" THEN "rejected" ELSE "resolved"

\* toPromise: settled by the stream's "end" or "error" event
toPromise(stream) ==
  IF stream = "end" THEN "resolved"
  ELSE IF stream = "error" THEN "rejected"
  ELSE "pending"

\* deployPipeAsync up to its first await: the pipe into gulp.dest(.temp)
deployPipeAsync(pipe) ==
  /\ runs' = runs + 1
  /\ step' = "Staging"
  /\ trace' = <<"Staging">>
  /\ runError' = NoError
  /\ stagingStream' = "flowing"
  /\ staged' = pipe
  /\ tempBefore' = tempDir
  /\ uploaded' = {}
  /\ sent' = <<>>
  /\ cmdPromise' = "none"
  /\ cmdError' = NoError
  /\ cmdText' = <<>>
  /\ ncState' = "none"
  /\ ncAddr' = NoHost
  /\ attempts' = 0
  /\ ncOpened' = 0
  /\ ftpOpen' = FALSE
  /\ ftpOp' = "none"
  /\ ftpHost' = NoHost
  /\ leaked' = (leaked \/ ftpOpen \/ ncState # "none")

\* an await of deployPipeAsync threw: the run ends there; the promise of a run
\* started by deployAsync has no handler
Reject(error) ==
  /\ step' = "Aborted"
  /\ runError' = error
  /\ unhandled' = (unhandled \/ task = "deploy")

\* task deploy: deployAsync calls deployPipeAsync without await or return, so
\* `await project.deployAsync()` is over when the run has only begun
deployAsync ==
  /\ Constructed
  /\ task = "deploy"
  /\ piped' = srcFiles(disk, Template(Get(configuration, "srcDir")))
  /\ deployPipeAsync(processedSrcFiles(configuration, disk))
  /\ taskPc' = "returned"
  /\ taskSignal' = "completed"
  /\ parsed' = NoFile
  /\ UNCHANGED <<nTasks, task, ctor, filePorts, unhandled>>
  /\ UNCHANGED <<defaultsConfig, disk, tempDir, buildVars>>

\* gulp.dest: every entry is written at its relative path, over the file
\* that is there; the other files of the directory stay
dest(dir, entries) ==
  {e \in dir : \A w \in entries : w.path # e.path} \cup entries

\* a staging that empties .temp before it writes
StagingEndsClears ==
  /\ stagingStream = "flowing"
  /\ stagingStream' = "end"
  /\ tempDir' = staged
  /\ UNCHANGED <<runs, step, trace, runError, unhandled, staged, piped, tempBefore, uploaded>>
  /\ UNCHANGED <<defaultsConfig, disk, leaked, taskVars, buildVars, ncVars, ftpVars>>

\* the files are written to .temp and the stream ends
StagingEnds ==
  /\ stagingStream = "flowing"
  /\ stagingStream' = "end"
  /\ tempDir' = dest(tempDir, staged)
  /\ UNCHANGED <<runs, step, trace, runError, unhandled, staged, piped, tempBefore, uploaded>>
  /\ UNCHANGED <<defaultsConfig, disk, leaked, taskVars, buildVars, ncVars, ftpVars>>

\* the stream emits "error"
StagingFails ==
  /\ stagingStream = "flowing"
  /\ stagingStream' = "error"
  /\ UNCHANGED <<runs, step, trace, runError, unhandled, staged, piped, tempBefore, uploaded>>
  /\ UNCHANGED <<defaultsConfig, disk, tempDir, leaked, taskVars, buildVars,
                 ncVars, ftpVars>>

\* `await toPromise(...)` returned: sendCmdAsync("destroy")
Stopping ==
  /\ step = "Staging"
  /\ toPromise(stagingStream) = "resolved"
  /\ step' = "Stopping"
  /\ trace' = Append(trace, "Stopping")
  /\ sendCmdAsync(sDestroy)
  /\ UNCHANGED <<runs, runError, unhandled, stagingStream, staged, piped, tempBefore, uploaded, sent>>
  /\ UNCHANGED <<defaultsConfig, disk, tempDir, leaked, taskVars, buildVars, ftpVars>>

StagingRejected ==
  /\ step = "Staging"
  /\ toPromise(stagingStream) = "rejected"
  /\ Reject("StreamError")
  /\ UNCHANGED <<runs, trace, stagingStream, staged, piped, tempBefore, uploaded>>
  /\ UNCHANGED <<defaultsConfig, disk, tempDir, leaked, taskVars, buildVars,
                 ncVars, ftpVars>>

\* the host and port given to ftp.access
ftpAccess(cfg) ==
  [host |-> Coalesce(Get(cfg, "ip"), Str(<<"l", "o", "c", "a", "l", "h", "o", "s", "t">>)).v,
   port |-> Coalesce(OptGet(Get(cfg, "ports"), "ftp"),
              Coalesce(OptGet(Get(defaultsConfig, "ports"), "ftp"),
                       Num(FtpPort))).v]

\* `await this.sendCmdAsync("destroy")` returned: new Client(), ftp.access
Connecting ==
  /\ step = "Stopping"
  /\ cmdPromise = "resolved"
  /\ cmdPromise' = "none"
  /\ step' = "Connecting"
  /\ trace' = Append(trace, "Connecting")
  /\ ftpOp' = "access"
  /\ ftpHost' = ftpAccess(configuration)
  /\ UNCHANGED <<runs, runError, unhandled, stagingStream, staged, piped, tempBefore, uploaded>>
  /\ UNCHANGED <<ncState, ncAddr, attempts, ncOpened, cmdError, cmdText, sent, ftpOpen>>
  /\ UNCHANGED <<defaultsConfig, disk, tempDir, leaked, taskVars, buildVars>>

\* the rejection of sendCmdAsync caught and logged, the run going on
CmdRejectedLogged ==
  /\ step \in {"Stopping", "Starting"}
  /\ cmdPromise = "rejected"
  /\ cmdPromise' = "resolved"
  /\ runError' = cmdError
  /\ UNCHANGED <<runs, step, trace, unhandled, stagingStream, staged, piped, tempBefore, uploaded>>
  /\ UNCHANGED <<ncState, ncAddr, attempts, ncOpened, cmdError, cmdText, sent>>
  /\ UNCHANGED <<defaultsConfig, disk, tempDir, leaked, taskVars, buildVars, ftpVars>>

\* an awaited sendCmdAsync rejected
CmdRejected ==
  /\ step \in {"Stopping", "Starting"}
  /\ cmdPromise = "rejected"
  /\ cmdPromise' = "none"
  /\ Reject(cmdError)
  /\ UNCHANGED <<runs, trace, stagingStream, staged, piped, tempBefore, uploaded>>
  /\ UNCHANGED <<ncState, ncAddr, attempts, ncOpened, cmdError, cmdText, sent>>
  /\ UNCHANGED <<defaultsConfig, disk, tempDir, leaked, taskVars, buildVars, ftpVars>>

\* ftp.access resolved: the session is open, ftp.cd("ux0:")
Navigating ==
  /\ step = "Connecting"
  /\ ftpOp = "access"
  /\ ftpOpen' = TRUE
  /\ step' = "Navigating"
  /\ trace' = Append(trace, "Navigating")
  /\ ftpOp' = "cd1"
  /\ UNCHANGED <<runs, runError, unhandled, stagingStream, staged, piped, tempBefore, uploaded, ftpHost>>
  /\ UNCHANGED <<defaultsConfig, disk, tempDir, leaked, taskVars, buildVars, ncVars>>

\* ftp.cd("ux0:") resolved: ftp.cd("app"); then ftp.cd(id)
NextSegment ==
  /\ step = "Navigating"
  /\ ftpOp \in {"cd1", "cd2"}
  /\ ftpOp' = IF ftpOp = "cd1" THEN "cd2" ELSE "cd3"
  /\ UNCHANGED <<ftpOpen, ftpHost>>
  /\ UNCHANGED <<defaultsConfig, disk, tempDir, leaked, taskVars, buildVars,
                 runVars, ncVars>>

\* ftp.cd(id) resolved: ftp.uploadFromDir(.temp)
Uploading ==
  /\ step = "Navigating"
  /\ ftpOp = "cd3"
  /\ step' = "Uploading"
  /\ trace' = Append(trace, "Uploading")
  /\ ftpOp' = "upload"
  /\ UNCHANGED <<runs, runError, unhandled, stagingStream, staged, piped, tempBefore, uploaded>>
  /\ UNCHANGED <<ftpOpen, ftpHost>>
  /\ UNCHANGED <<defaultsConfig, disk, tempDir, leaked, taskVars, buildVars, ncVars>>

\* the upload resolved: ftp.close(), then sendCmdAsync(`launch ${id}`)
ClosingStarting ==
  /\ step = "Uploading"
  /\ ftpOp = "upload"
  /\ uploaded' = tempDir
  /\ ftpOp' = "none"
  /\ ftpOpen' = FALSE
  /\ step' = "Starting"
  /\ trace' = trace \o <<"Closing", "Starting">>
  /\ sendCmdAsync(launchCmd(configuration))
  /\ UNCHANGED <<runs, runError, unhandled, stagingStream, staged, piped, tempBefore, sent, ftpHost>>
  /\ UNCHANGED <<defaultsConfig, disk, tempDir, leaked, taskVars, buildVars>>

\* a rejected call of the FTP client followed by clearTempDirectoryAsync
FtpRejectsCleans ==
  /\ ftpOp # "none"
  /\ ftpOp' = "none"
  /\ tempDir' = {}
  /\ Reject(IF ftpOp = "access" THEN "ConnectError"
            ELSE IF ftpOp = "upload" THEN "TransferError"
            ELSE "RemoteDirNotFound")
  /\ UNCHANGED <<runs, trace, stagingStream, staged, piped, tempBefore, uploaded>>
  /\ UNCHANGED <<ftpOpen, ftpHost>>
  /\ UNCHANGED <<defaultsConfig, disk, leaked, taskVars, buildVars, ncVars>>

\* an awaited call of the FTP client rejected
FtpRejects ==
  /\ ftpOp # "none"
  /\ ftpOp' = "none"
  /\ Reject(IF ftpOp = "access" THEN "ConnectError"
            ELSE IF ftpOp = "upload" THEN "TransferError"
            ELSE "RemoteDirNotFound")
  /\ UNCHANGED <<runs, trace, stagingStream, staged, piped, tempBefore, uploaded>>
  /\ UNCHANGED <<ftpOpen, ftpHost>>
  /\ UNCHANGED <<defaultsConfig, disk, tempDir, leaked, taskVars, buildVars, ncVars>>

\* the launch was sent: clearTempDirectoryAsync, `await del(.temp)`
CleaningUp ==
  /\ step = "Starting"
  /\ cmdPromise = "resolved"
  /\ cmdPromise' = "none"
  /\ step' = "CleaningUp"
  /\ trace' = Append(trace, "CleaningUp")
  /\ UNCHANGED <<runs, runError, unhandled, stagingStream, staged, piped, tempBefore, uploaded>>
  /\ UNCHANGED <<ncState, ncAddr, attempts, ncOpened, cmdError, cmdText, sent>>
  /\ UNCHANGED <<defaultsConfig, disk, tempDir, leaked, taskVars, buildVars, ftpVars>>

\* del resolved: .temp is gone and deployPipeAsync returns
Done ==
  /\ step = "CleaningUp"
  /\ tempDir' = {}
  /\ step' = "Done"
  /\ trace' = Append(trace, "Done")
  /\ UNCHANGED <<runs, runError, unhandled, stagingStream, staged, piped, tempBefore, uploaded>>
  /\ UNCHANGED <<defaultsConfig, disk, leaked, taskVars, buildVars, ncVars, ftpVars>>

\* del rejected
DelRejects ==
  /\ step = "CleaningUp"
  /\ Reject("DelError")
  /\ UNCHANGED <<runs, trace, stagingStream, staged, piped, tempBefore, uploaded>>
  /\ UNCHANGED <<defaultsConfig, disk, tempDir, leaked, taskVars, buildVars,
                 ncVars, ftpVars>>

\* --------------------------------------------------------------- task watch
\* gulp.watch is set up and the task function returns the watcher
Watch ==
  /\ Constructed
  /\ task = "watch"
  /\ taskPc' = "watching"
  /\ parsed' = NoFile
  /\ UNCHANGED <<nTasks, task, taskSignal, ctor, filePorts>>
  /\ UNCHANGED <<defaultsConfig, disk, tempDir, leaked, buildVars, runVars,
                 ncVars, ftpVars>>

\* the trees one change of a file below srcDir leads to: a.png is added,
\* removed, or a file is rewritten
Changes(d, srcDir) ==
  {d, d \cup {srcDir \o sSlash \o sPng}, d \ {srcDir \o sSlash \o sPng}}

\* a change below srcDir: transferFiles runs, one run at a time, on the
\* files changed since its last run (all of them the first time)
transferFiles(d, changed) ==
  /\ taskPc = "watching"
  /\ step \in {"Idle", "Done", "Aborted"}
  /\ runs < MaxRuns
  /\ d \in Changes(disk, Template(Get(configuration, "srcDir")))
  /\ changed \subseteq srcFiles(d, Template(Get(configuration, "srcDir")))
  /\ runs = 0 => changed = srcFiles(d, Template(Get(configuration, "srcDir")))
  /\ disk' = d
  /\ piped' = changed
  /\ deployPipeAsync(processPipe(changed))
  /\ UNCHANGED unhandled
  /\ UNCHANGED <<defaultsConfig, tempDir, taskVars, buildVars>>

\* ------------------------------------------------------------ specification
Next ==
  \/ \E t \in Tasks, path \in Paths : NewVitaProject(t, path)
  \/ ConstructorThrows
  \/ \E toolOk \in BOOLEAN : build(toolOk)
  \/ BuildZips
  \/ BuildWrites
  \/ NcConnects
  \/ NcRetries
  \/ NcSends
  \/ NcCloses
  \/ NcErrors
  \/ TestCmdLaunch
  \/ TestCmdSleeps
  \/ TestCmdDestroy
  \/ TestCmdDone
  \/ TestCmdRejected
  \/ deployAsync
  \/ StagingEnds
  \/ StagingFails
  \/ Stopping
  \/ StagingRejected
  \/ Connecting
  \/ CmdRejected
  \/ Navigating
  \/ NextSegment
  \/ Uploading
  \/ ClosingStarting
  \/ FtpRejects
  \/ CleaningUp
  \/ Done
  \/ DelRejects
  \/ Watch
  \/ \E d \in Changes(disk, Template(Get(configuration, "srcDir"))) :
       \E changed \in SUBSET srcFiles(d, Template(Get(configuration, "srcDir"))) :
         transferFiles(d, changed)

Spec == Init /\ [][Next]_vars

\* ------------------------------------------- processPipe on any set of files
sJpg == <<"b", ".", "j", "p", "g">>
sBmp == <<"c", ".", "b", "m", "p">>
sNoDot == <<"p", "n", "g">>
sPngLua == <<"a", ".", "p", "n", "g", ".", "l", "u", "a">>
PipeEntries ==
  {[path |-> n, data |-> "original"] :
     n \in {sPng, sJpg, sBmp, sNoDot, sPngLua, ebootFileName}}

InitPipe ==
  /\ piped \in SUBSET PipeEntries
  /\ disk = {}
  /\ defaultsConfig = defaultsConfigLiteral
  /\ tempDir = {}
  /\ leaked = FALSE
  /\ nTasks = 0
  /\ task = "none"
  /\ taskPc = "idle"
  /\ taskSignal = "none"
  /\ ctor = NoCtor
  /\ parsed = NoFile
  /\ filePorts = Absent
  /\ sfo = FALSE
  /\ buildStream = "none"
  /\ archive = NoArchive
  /\ runs = 0
  /\ step = "Idle"
  /\ trace = <<>>
  /\ runError = NoError
  /\ unhandled = FALSE
  /\ stagingStream = "none"
  /\ staged = {}
  /\ tempBefore = {}
  /\ uploaded = {}
  /\ ncState = "none"
  /\ ncAddr = NoHost
  /\ attempts = 0
  /\ ncOpened = 0
  /\ cmdPromise = "none"
  /\ cmdError = NoError
  /\ cmdText = <<>>
  /\ sent = <<>>
  /\ ftpOpen = FALSE
  /\ ftpOp = "none"
  /\ ftpHost = NoHost

\* the entries go through processPipe
ApplyProcessPipe ==
  /\ piped # {}
  /\ staged = {}
  /\ staged' = processPipe(piped)
  /\ UNCHANGED <<runs, step, trace, runError, unhandled, stagingStream, piped,
                 tempBefore, uploaded>>
  /\ UNCHANGED <<defaultsConfig, disk, tempDir, leaked, taskVars, buildVars,
                 ncVars, ftpVars>>

NextPipe == ApplyProcessPipe

SpecPipe == InitPipe /\ [][NextPipe]_vars

\* ------------------------------------------------------------------ claims
Range(seq) == {seq[i] : i \in 1..Len(seq)}
IsPrefix(a, b) == Len(a) <= Len(b) /\ SubSeq(b, 1, Len(a)) = a
StepOrder ==
  <<"Staging", "Stopping", "Connecting", "Navigating", "Uploading", "Closing",
    "Starting", "CleaningUp", "Done">>
\* the asynchronous operations of the run that have not settled
InFlight ==
  (IF stagingStream = "flowing" THEN {"staging"} ELSE {}) \cup
  (IF cmdPromise = "pending" \/ ncState \in {"connecting", "open", "closing"}
     THEN {"command"} ELSE {}) \cup
  (IF ftpOp # "none" THEN {"ftp"} ELSE {}) \cup
  (IF step = "CleaningUp" THEN {"del"} ELSE {})
\* the operation a step awaits
OpOf(s) ==
  CASE s = "Staging" -> {"staging"}
    [] s \in {"Stopping", "Starting"} -> {"command"}
    [] s \in {"Connecting", "Navigating", "Uploading"} -> {"ftp"}
    [] s = "CleaningUp" -> {"del"}
    [] OTHER -> {}
destroyLine == sDestroy \o sNewline
launchLine == launchCmd(configuration) \o sNewline

\* C1: in every run of deployPipeAsync the steps begin in the order Staging,
\* Stopping, Connecting, Navigating, Uploading, Closing, Starting, CleaningUp,
\* Done; the only operation in flight is the one of the step begun last, whose
\* predecessors have had their effect; Done comes after all eight steps.
C1_StepsInOrder ==
  /\ IsPrefix(trace, StepOrder)
  /\ Cardinality(InFlight) <= 1
  /\ trace # <<>> => InFlight \subseteq OpOf(trace[Len(trace)])
  /\ "Stopping" \in Range(trace) => stagingStream = "end" /\ staged \subseteq tempDir \cup uploaded
  /\ "Connecting" \in Range(trace) => Len(sent) >= 1 /\ sent[1] = destroyLine
  /\ "Uploading" \in Range(trace) /\ "Closing" \notin Range(trace) /\ step # "Aborted"
       => ftpOpen
  /\ "Starting" \in Range(trace) => ~ftpOpen /\ ftpOp = "none"
  /\ step = "Done" <=> (trace # <<>> /\ trace[Len(trace)] = "Done")
  /\ step = "Done" =>
       /\ trace = StepOrder
       /\ InFlight = {}
       /\ sent = <<destroyLine, launchLine>>
       /\ tempDir = {}
C1_Witness == step = "Done" /\ trace = StepOrder /\ uploaded # {}

\* C2: a failed step ends the run: the run is Aborted as soon as it has an
\* error, and from then on no step begins, nothing is retried or sent or
\* uploaded; a failed cd never reaches Uploading, and a failure between
\* Stopping and Starting never sends the launch command.
C2_Failed == runError # NoError
C2_NoStepAfterFailure ==
  /\ [](C2_Failed => step = "Aborted")
  /\ [](step = "Aborted" /\ runError = "RemoteDirNotFound"
          => /\ trace[Len(trace)] = "Navigating"
             /\ "Uploading" \notin Range(trace)
             /\ uploaded = {})
  /\ [](step = "Aborted" /\ "Connecting" \in Range(trace)
          /\ "Starting" \notin Range(trace)
          => launchLine \notin Range(sent))
  /\ [][step = "Aborted" /\ runs' = runs /\ nTasks' = nTasks
          => /\ step' = "Aborted"
             /\ trace' = trace
             /\ runError' = runError
             /\ sent' = sent
             /\ uploaded' = uploaded
             /\ cmdPromise' = "none"
             /\ ftpOp' = "none"
             /\ ncState' = ncState
             /\ tempDir' = tempDir]_vars
C2_Witness ==
  /\ step = "Aborted"
  /\ runError = "RemoteDirNotFound"
  /\ sent = <<destroyLine>>

\* something of the task beyond the constructor has begun
Started ==
  \/ sfo
  \/ buildStream # "none"
  \/ archive # NoArchive
  \/ step # "Idle"
  \/ stagingStream # "none"
  \/ ncState # "none"
  \/ cmdPromise # "none"
  \/ sent # <<>>
  \/ ftpOp # "none"
  \/ ftpOpen
  \/ taskPc \in {"await launch", "await sleep", "await destroy", "watching"}
  \/ taskSignal = "completed"
srcDirPath == Template(Get(configuration, "srcDir")) \o sSlash

\* C3: nothing of a task (metadata, assets, packaging, staging, network)
\* begins unless the constructor read the configuration, validated it and
\* checked the required files, in that order and without error; with
\* eboot.bin missing the build fails with that error and begins nothing.
C3_GatedBySetup ==
  /\ Started =>
       /\ ctor.log = <<"readConfiguration", "validateConfiguration",
                       "checkRequiredFiles">>
       /\ ctor.error = NoError
       /\ Length(Get(configuration, "id")) = 9
       /\ ~IsNullish(Get(configuration, "title"))
       /\ srcDirPath \in disk
       /\ (srcDirPath \o ebootFileName) \in disk
       /\ (srcDirPath \o indexFileName) \in disk
  /\ (/\ Len(ctor.log) = 3
      /\ task \in {"default", "build"}
      /\ srcDirPath \in disk
      /\ (srcDirPath \o ebootFileName) \notin disk)
       => /\ ~Started
          /\ ctor.error = ebootFileIsMissing
          /\ taskPc = "returned" => taskSignal = ebootFileIsMissing
C3_Witness ==
  /\ task = "build"
  /\ taskPc = "returned"
  /\ taskSignal = ebootFileIsMissing
  /\ ~Started

ValidationRan == Len(ctor.log) >= 2

\* C4: validation fails with InvalidId whenever id is null or not 9 long,
\* also when title is null as well, and never when id is 9 long.
C4_InvalidId ==
  ValidationRan =>
    LET id == Get(configuration, "id")
    IN /\ (IsNullish(id) \/ id.k # "string" \/ Len(id.v) # 9)
            => ctor.error = idDoesNotConformRequirements
       /\ (id.k = "string" /\ Len(id.v) = 9)
            => ctor.error # idDoesNotConformRequirements
C4_Witness ==
  /\ ValidationRan
  /\ IsNullish(Get(configuration, "id"))
  /\ IsNullish(Get(configuration, "title"))
  /\ ctor.error = idDoesNotConformRequirements

\* C5: with a valid id, validation fails with InvalidTitle whenever title is
\* null or the empty string.
C5_InvalidTitle ==
  (/\ ValidationRan
   /\ Length(Get(configuration, "id")) = 9
   /\ (IsNullish(Get(configuration, "title")) \/ Get(configuration, "title") = Str(sEmpty)))
    => ctor.error = titleIsNotAvailable

\* C6: the required-files check fails with the first of SourceDirMissing,
\* LoaderBinaryMissing, EntryScriptMissing that applies: without the source
\* directory it looks at no file, with both files missing it reports the
\* loader binary, and it succeeds only with the directory and both files.
C6_FirstMissing ==
  (Len(ctor.log) = 3 /\ taskPc \in {"constructed", "returned"}) =>
    LET dir == srcDirPath \in disk
        eboot == (srcDirPath \o ebootFileName) \in disk
        index == (srcDirPath \o indexFileName) \in disk
    IN /\ ~dir => ctor.error = srcDirDoesntExists /\ ctor.probes = <<srcDirPath>>
       /\ (dir /\ ~eboot) => ctor.error = ebootFileIsMissing
       /\ (dir /\ eboot /\ ~index) => ctor.error = indexFileIsMissing
       /\ ctor.error = NoError <=> (dir /\ eboot /\ index)
C6_Witness ==
  /\ Len(ctor.log) = 3
  /\ taskPc = "returned"
  /\ srcDirPath \in disk
  /\ (srcDirPath \o ebootFileName) \notin disk
  /\ (srcDirPath \o indexFileName) \notin disk
  /\ ctor.error = ebootFileIsMissing

\* C7: with ip unset sendCmdAsync rejects with ipIsNotDefined and opens no
\* connection, and a run aborts at Stopping: no command socket, no FTP
\* session (none to localhost either), nothing sent.
C7_NoAddressNoNetwork ==
  IsNullish(Get(configuration, "ip")) =>
    /\ ncState = "none"
    /\ ncAddr = NoHost
    /\ cmdPromise \in {"none", "rejected"}
    /\ cmdPromise = "rejected" => cmdError = ipIsNotDefined
    /\ sent = <<>>
    /\ ~ftpOpen
    /\ ftpOp = "none"
    /\ ftpHost = NoHost
    /\ "Connecting" \notin Range(trace)
    /\ (step = "Aborted" /\ "Stopping" \in Range(trace)) => runError = ipIsNotDefined
    /\ (taskPc = "returned" /\ task = "test:cmd" /\ ctor.error = NoError)
         => taskSignal = ipIsNotDefined
C7_Witness ==
  /\ IsNullish(Get(configuration, "ip"))
  /\ step = "Aborted"
  /\ trace = <<"Staging", "Stopping">>
  /\ runError = ipIsNotDefined

\* C8: the tasks build and default signal completion only after the archive
\* has been written into the output directory.
C8_BuildCompletesAfterWrite ==
  (task \in {"default", "build"} /\ taskSignal = "completed")
    => buildStream = "written" /\ archive.written

\* C9: the task deploy signals completion only after the run reached Done,
\* and fails when a step of the run fails.
C9_DeployEndToEnd ==
  task = "deploy" =>
    /\ taskSignal = "completed" => step = "Done"
    /\ step = "Aborted" => taskSignal = runError

\* C10: after every load each key of the descriptor file has the file's
\* value and every other key has the default written in the source.
C10_MergeOverDefaults ==
  (taskPc = "constructed" /\ parsed.exists) =>
    \A key \in Keys :
      Get(configuration, key) =
        IF key \in DOMAIN parsed.json THEN parsed.json[key]
        ELSE Get(defaultsConfigLiteral, key)

\* a line of the command protocol: text without line break, then one "\n"
IsLine(l) ==
  /\ Len(l) >= 1
  /\ l[Len(l)] = "\n"
  /\ \A i \in 1..(Len(l) - 1) : l[i] # "\n"

\* C11: sendCmdAsync opens one connection for its command, sends the command
\* followed by one newline and closes; its promise resolves only after the
\* send and the close, rejects on a socket error before that, and once
\* settled keeps its outcome.
C11_SendCommand ==
  /\ [](/\ ncOpened <= 1
        /\ \A i \in 1..Len(sent) : IsLine(sent[i])
        /\ ncState = "closing" =>
             sent # <<>> /\ sent[Len(sent)] = cmdText \o sNewline
        /\ cmdPromise = "resolved" =>
             /\ ncState = "none"
             /\ ncOpened = 1
             /\ sent # <<>>
             /\ sent[Len(sent)] = cmdText \o sNewline
        /\ (ncState = "error" /\ cmdPromise # "none") =>
             cmdPromise = "rejected" /\ cmdError = "SocketError")
  /\ [][/\ cmdPromise \in {"resolved", "rejected"} => cmdPromise' \in {cmdPromise, "none"}
        /\ (cmdPromise = "pending" /\ ncState' = "error") => cmdPromise' = "rejected"
        /\ (cmdPromise = "pending" /\ cmdPromise' = "resolved")
             => ncState = "closing" /\ ncState' = "none"
        /\ Len(sent') > Len(sent) =>
             /\ sent' = Append(sent, cmdText \o sNewline)
             /\ ncState = "open"]_vars
C11_Witness ==
  /\ cmdPromise = "resolved"
  /\ ncState = "none"
  /\ ncOpened = 1
  /\ sent = <<destroyLine>>

PathsOf(entries) == {e.path : e \in entries}
sourcePaths == PathsOf(srcFiles(disk, Template(Get(configuration, "srcDir"))))

IsImagePath(path) ==
  /\ Len(path) >= 5
  /\ SubSeq(path, Len(path) - 3, Len(path)) \in
       {<<".", "b", "m", "p">>, <<".", "p", "n", "g">>, <<".", "j", "p", "g">>}

\* C13: processPipe returns the entries at the same relative paths; an entry
\* that is not a bmp, png or jpg comes out as it went in, so an input without
\* images comes out unchanged, and only bmp, png and jpg entries go through
\* the recompressor.
C13_ProcessImages ==
  staged # {} =>
    /\ PathsOf(staged) = PathsOf(piped)
    /\ Cardinality(staged) = Cardinality(piped)
    /\ \A e \in piped : ~IsImagePath(e.path) => e \in staged
    /\ \A e \in staged : e.data = "recompressed" => IsImagePath(e.path)
    /\ (\A e \in piped : ~IsImagePath(e.path)) => staged = piped
C13_Witness ==
  /\ [path |-> sPng, data |-> "recompressed"] \in staged
  /\ [path |-> sBmp, data |-> "recompressed"] \in staged
  /\ [path |-> sPngLua, data |-> "original"] \in staged
  /\ [path |-> sNoDot, data |-> "original"] \in staged
  /\ [path |-> ebootFileName, data |-> "original"] \in piped

\* the command socket is connected
CmdSocketOpen == ncState \in {"open", "closing"}

\* C14: the command socket and the FTP session are never open together, and
\* no connection is open once the run has ended, at Done or by a failure.
C14_ConnectionsClosed ==
  /\ ~(CmdSocketOpen /\ ftpOpen)
  /\ step \in {"Done", "Aborted"} => (~CmdSocketOpen /\ ~ftpOpen)

\* the step at which the run stands or stood when it was aborted
LastStep == IF trace = <<>> THEN "Idle" ELSE trace[Len(trace)]

\* the run was aborted at a step from Stopping through Starting
FailedBeforeCleanup ==
  /\ step = "Aborted"
  /\ LastStep \in {"Stopping", "Connecting", "Navigating", "Uploading", "Starting"}

\* C15 as stated: .temp does not exist at Done and exists after every run
\* that failed at a step from Stopping through Starting.
C15_TempDirPresent ==
  /\ step = "Done" => tempDir = {}
  /\ FailedBeforeCleanup => tempDir # {}

\* C15, amended: .temp is deleted exactly when a run gets through Starting:
\* it is gone at Done, no other step deletes from it, and after a run that
\* failed at a step from Stopping through Starting it holds what Staging
\* left in it: the files the run staged and the files that were there
\* before, so it exists unless the run staged nothing into no directory.
C15_TempDirLifetime ==
  /\ [](/\ step = "Done" => tempDir = {}
        /\ FailedBeforeCleanup =>
             /\ staged \subseteq tempDir
             /\ tempDir = dest(tempBefore, staged)
             /\ (staged # {} \/ tempBefore # {}) => tempDir # {})
  /\ [][~(tempDir \subseteq tempDir') =>
          (step = "CleaningUp" /\ step' = "Done" /\ tempDir' = {})]_vars
C15_Witness ==
  /\ FailedBeforeCleanup
  /\ LastStep = "Uploading"
  /\ runError = "TransferError"
  /\ [path |-> ebootFileName, data |-> "original"] \in tempDir

\* C16: Staging removes no file from .temp, and the files a run uploads are
\* the files it staged together with the files that were in .temp before it,
\* left by an earlier failed run; a later run therefore uploads files that
\* are no longer in the source set.
C16_UploadsWholeTempDir ==
  /\ []("Starting" \in Range(trace) =>
          /\ uploaded = dest(tempBefore, staged)
          /\ PathsOf(uploaded) = PathsOf(staged) \cup PathsOf(tempBefore)
          /\ staged \subseteq uploaded)
  /\ [][step = "Staging" => PathsOf(tempDir) \subseteq PathsOf(tempDir')]_vars
C16_Witness ==
  /\ step = "Done"
  /\ sPng \in PathsOf(uploaded)
  /\ sPng \notin PathsOf(staged)
  /\ sPng \notin sourcePaths
\* the port the descriptor file gives under ports.<name>, else the default
PortOfFile(name, default) ==
  IF /\ filePorts.k = "object"
     /\ name \in DOMAIN filePorts.v
     /\ ~IsNullish(filePorts.v[name])
    THEN filePorts.v[name].v
    ELSE default

\* C17: the command connection goes to the file's ports.cmd when the file
\* gives one and to 1338 otherwise, and the FTP session to the file's
\* ports.ftp when the file gives one and to 1337 otherwise, also for a ports
\* record with one port only and for a null ports value.
C17_PortsOfFile ==
  /\ ncAddr # NoHost => ncAddr.port = PortOfFile("cmd", CmdPort)
  /\ ftpHost # NoHost => ftpHost.port = PortOfFile("ftp", FtpPort)

\* the device is unreachable: the client is still trying to connect
Unreachable == ncState = "connecting"

\* C18: sendCmdAsync bounds neither the number of attempts nor the time:
\* while the device is unreachable another attempt is always possible, and
\* as long as it stays unreachable and no socket error is raised the promise
\* stays pending and a run waiting for it stays in Stopping, before
\* Connecting and Done.
C18_RetriesForever ==
  /\ [](Unreachable =>
          /\ ENABLED NcRetries
          /\ cmdPromise = "pending"
          /\ step = "Stopping" =>
               /\ "Connecting" \notin Range(trace)
               /\ "Done" \notin Range(trace))
  /\ [][(Unreachable /\ Unreachable') =>
          /\ cmdPromise' = "pending"
          /\ step' = step
          /\ trace' = trace]_vars
  /\ [][(Unreachable /\ cmdPromise' # "pending") =>
          (ncState' = "error" /\ cmdPromise' = "rejected")]_vars
C18_Witness ==
  /\ step = "Stopping"
  /\ Unreachable
  /\ attempts = MaxAttempts
  /\ cmdPromise = "pending"
  /\ sent = <<>>

====
